---------------------------- MODULE Spec2Model ----------------------------
(***************************************************************************)
(* Verification model of the FL filtering library core:                    *)
(*   - fl::UnscentedTransform::forward        (sigma point generation)     *)
(*   - fl::MultiSensorSigmaPointUpdatePolizzle::operator()  (fusion)       *)
(*   - ff::Gaussian                           (belief container)           *)
(*   - fl::StateTransitionDensity             (batch evaluation)           *)
(*   - fl::DiscreteDistribution               (weighted locations)         *)
(*                                                                         *)
(* Real numbers are modelled exactly.  A Real is either non-finite (NaN,   *)
(* +Inf, -Inf) or a finite element a + b*sqrt(r) of a quadratic extension  *)
(* of the rationals, so that gamma_factor's std::sqrt is computed, not     *)
(* assumed away.  Rounding of double arithmetic is not modelled.           *)
(***************************************************************************)
EXTENDS Integers, Sequences, FiniteSets, TLC

(***************************************************************************)
(* Rationals: <<n, d>> with d > 0 and gcd(|n|, d) = 1.                     *)
(***************************************************************************)
Abs(n) == IF n < 0 THEN 0 - n ELSE n

RECURSIVE GCD(_, _)
GCD(a, b) == IF b = 0 THEN a ELSE GCD(b, a % b)

Rat(n, d) ==
    LET s == IF d < 0 THEN 0 - 1 ELSE 1
        g == GCD(Abs(n), Abs(d))
    IN  <<(s * n) \div g, (s * d) \div g>>

R0 == <<0, 1>>
R1 == <<1, 1>>
RInt(n) == <<n, 1>>

\* sums and products reduce before they multiply, to keep the integers small
RAdd(x, y) ==
    LET g == GCD(x[2], y[2])
    IN  Rat(x[1] * (y[2] \div g) + y[1] * (x[2] \div g), (x[2] \div g) * y[2])
RNeg(x) == <<0 - x[1], x[2]>>
RSub(x, y) == RAdd(x, RNeg(y))
RMul(x, y) ==
    LET g1 == GCD(Abs(x[1]), y[2])
        g2 == GCD(Abs(y[1]), x[2])
    IN  IF x[1] = 0 \/ y[1] = 0 THEN <<0, 1>>
        ELSE <<(x[1] \div g1) * (y[1] \div g2), (x[2] \div g2) * (y[2] \div g1)>>
RInv(x) == Rat(x[2], x[1])
RDiv(x, y) == RMul(x, RInv(y))
RSign(x) == IF x[1] > 0 THEN 1 ELSE IF x[1] < 0 THEN 0 - 1 ELSE 0
RLess(x, y) == x[1] * y[2] < y[1] * x[2]

(***************************************************************************)
(* Integer square root test, for recognising rational perfect squares.     *)
(***************************************************************************)
RECURSIVE ISqrtFrom(_, _)
ISqrtFrom(n, k) == IF k * k >= n THEN k ELSE ISqrtFrom(n, k + 1)

ISqrt(n) == ISqrtFrom(n, 0)
IsSquare(n) == n >= 0 /\ ISqrt(n) * ISqrt(n) = n

(***************************************************************************)
(* Reals (IEEE-like, exact): k is "fin", "nan", "pinf" or "ninf".  A       *)
(* finite value is a + b*sqrt(r); b = 0 is kept with r = 1 so that equal   *)
(* values have equal representations (r is never a perfect square when     *)
(* b # 0).                                                                 *)
(***************************************************************************)
Fin(a, b, r) == [k |-> "fin", a |-> a, b |-> b, r |-> IF b = R0 THEN R1 ELSE r]
Num(a) == Fin(a, R0, R1)
Int2Real(n) == Num(RInt(n))
Frac(n, d) == Num(Rat(n, d))
NaN == [k |-> "nan", a |-> R0, b |-> R0, r |-> R1]
PInf == [k |-> "pinf", a |-> R0, b |-> R0, r |-> R1]
NInf == [k |-> "ninf", a |-> R0, b |-> R0, r |-> R1]
Zero == Num(R0)
One == Num(R1)

isfinite(x) == x.k = "fin"

\* sign of a finite a + b*sqrt(r)
FinSign(x) ==
    LET sa == RSign(x.a)
        sb == RSign(x.b)
        a2 == RMul(x.a, x.a)
        b2r == RMul(RMul(x.b, x.b), x.r)
    IN  IF sb = 0 THEN sa
        ELSE IF sa = 0 THEN sb
        ELSE IF sa = sb THEN sa
        ELSE IF RLess(b2r, a2) THEN sa
        ELSE sb

Sign(x) ==
    CASE x.k = "fin" -> FinSign(x)
      [] x.k = "pinf" -> 1
      [] x.k = "ninf" -> 0 - 1
      [] OTHER -> 0

Signed(s) == IF s > 0 THEN PInf ELSE IF s < 0 THEN NInf ELSE NaN

Radicand(x, y) == IF x.b # R0 THEN x.r ELSE y.r

Neg(x) ==
    CASE x.k = "fin" -> Fin(RNeg(x.a), RNeg(x.b), x.r)
      [] x.k = "pinf" -> NInf
      [] x.k = "ninf" -> PInf
      [] OTHER -> NaN

Add(x, y) ==
    CASE x.k = "nan" \/ y.k = "nan" -> NaN
      [] x.k = "fin" /\ y.k = "fin" ->
            Fin(RAdd(x.a, y.a), RAdd(x.b, y.b), Radicand(x, y))
      [] x.k = "fin" -> y
      [] y.k = "fin" -> x
      [] x.k = y.k -> x
      [] OTHER -> NaN

Sub(x, y) == Add(x, Neg(y))

Mul(x, y) ==
    CASE x.k = "nan" \/ y.k = "nan" -> NaN
      [] x.k = "fin" /\ y.k = "fin" ->
            LET r == Radicand(x, y)
            IN  Fin(RAdd(RMul(x.a, y.a), RMul(RMul(x.b, y.b), r)),
                    RAdd(RMul(x.a, y.b), RMul(x.b, y.a)), r)
      [] OTHER -> Signed(Sign(x) * Sign(y))

\* 1 / (a + b*sqrt(r)) = (a - b*sqrt(r)) / (a^2 - b^2 r), for a finite non-zero value
FinInv(x) ==
    IF x.b = R0 THEN Num(RInv(x.a))
    ELSE LET n == RSub(RMul(x.a, x.a), RMul(RMul(x.b, x.b), x.r))
         IN  Fin(RDiv(x.a, n), RNeg(RDiv(x.b, n)), x.r)

Div(x, y) ==
    CASE x.k = "nan" \/ y.k = "nan" -> NaN
      [] x.k = "fin" /\ y.k = "fin" ->
            IF y = Zero THEN Signed(Sign(x)) ELSE Mul(x, FinInv(y))
      [] x.k = "fin" -> Zero
      [] y.k = "fin" -> Signed(Sign(x) * (IF Sign(y) < 0 THEN 0 - 1 ELSE 1))
      [] OTHER -> NaN

\* std::sqrt of a rational Real: NaN below zero, exact root of a perfect
\* square, and otherwise the symbolic root 0 + 1*sqrt(x).
sqrt(x) ==
    CASE x.k = "nan" \/ x.k = "ninf" -> NaN
      [] x.k = "pinf" -> PInf
      [] OTHER ->
            IF RSign(x.a) < 0 THEN NaN
            ELSE IF IsSquare(x.a[1]) /\ IsSquare(x.a[2])
                 THEN Num(Rat(ISqrt(x.a[1]), ISqrt(x.a[2])))
                 ELSE Fin(R0, R1, x.a)

(***************************************************************************)
(* Vectors and matrices: functions over 0..n-1, as Eigen indexes them.     *)
(* A matrix is a function from row index to row vector.                    *)
(***************************************************************************)
\* the function f, with its values computed once (a function expression is
\* otherwise evaluated again at every application)
Eval(f) == IF f = f THEN f ELSE f

\* the one element of a singleton: The({e : v \in {d}}) is e with the local
\* variable v holding the value of d, computed once
The(S) == CHOOSE v \in S : TRUE

Vec(seq) == Eval([i \in 0..(Len(seq) - 1) |-> Int2Real(seq[i + 1])])
Mat(rows) == Eval([i \in 0..(Len(rows) - 1) |-> Vec(rows[i + 1])])
VAdd(u, v) == Eval([i \in DOMAIN u |-> Add(u[i], v[i])])
VSub(u, v) == Eval([i \in DOMAIN u |-> Sub(u[i], v[i])])
VScale(s, v) == Eval([i \in DOMAIN v |-> Mul(s, v[i])])
MScale(M, s) ==
    Eval([i \in DOMAIN M |-> Eval([j \in DOMAIN M[i] |-> Mul(M[i][j], s)])])
col(M, j) == Eval([i \in DOMAIN M |-> M[i][j]])

RECURSIVE SumTo(_, _)
\* f[0] + f[1] + ... + f[n], left to right
SumTo(f, n) == IF n < 0 THEN Zero ELSE Add(SumTo(f, n - 1), f[n])

VARIABLES
    alpha_, beta_, kappa_,      \* UnscentedTransform members
    point_set,                  \* the PointSet handed to forward()
    gaussian,                   \* arguments of the last forward() call
    global_dimension,
    dimension_offset,
    thrown,                     \* outcome of the last forward() call
    assigned,                   \* indices forward() passed to point_set.point()
    overwrote                   \* whether the last call ran on a point set that
                                \* held the points of a call with other arguments

utVars == <<alpha_, beta_, kappa_, point_set, gaussian, global_dimension,
            dimension_offset, thrown, assigned, overwrote>>

(***************************************************************************)
(* Bounds and input sets of the transform model.                           *)
(***************************************************************************)
MaxGlobalDim == 3

Dynamic == -1

\* the (alpha, beta, kappa) a transform is constructed with: the defaults,
\* scaled spreads, a negative kappa (dim + lambda < 0) and alpha = 0
\* (dim + lambda = 0)
Transforms ==
    { [alpha_ |-> One, beta_ |-> Int2Real(2), kappa_ |-> Zero],
      [alpha_ |-> One, beta_ |-> Zero, kappa_ |-> One],
      [alpha_ |-> Frac(1, 2), beta_ |-> Int2Real(2), kappa_ |-> One],
      [alpha_ |-> Frac(1, 2), beta_ |-> One, kappa_ |-> Zero],
      [alpha_ |-> One, beta_ |-> Int2Real(2), kappa_ |-> Int2Real(0 - 5)],
      [alpha_ |-> Zero, beta_ |-> Int2Real(2), kappa_ |-> Zero] }

\* the Gaussians handed to forward(): dimension, mean and square root
Gaussians ==
    { [dimension |-> 1, mean |-> Vec(<<2>>), square_root |-> Mat(<<<<3>>>>)],
      [dimension |-> 2, mean |-> Vec(<<1, 0 - 1>>),
       square_root |-> Mat(<<<<1, 0>>, <<2, 1>>>>)],
      [dimension |-> 2, mean |-> Vec(<<0, 3>>),
       square_root |-> Mat(<<<<2, 1>>, <<0, 0>>>>)],
      [dimension |-> 3, mean |-> Vec(<<1, 2, 0 - 2>>),
       square_root |-> Mat(<<<<1, 0, 0>>, <<1, 2, 0>>, <<0 - 1, 0, 1>>>>)] }

(***************************************************************************)
(* PointSet: NumberOfPoints is the compile-time point count (Dynamic or a  *)
(* fixed number); points and weights are indexed from 0.  Entries that a   *)
(* resize leaves without a value hold Unset.                               *)
(***************************************************************************)
Unset == [point |-> <<>>, weight |-> <<>>]

NewPointSet(n) ==
    [NumberOfPoints |-> n,
     entries |-> Eval([i \in 0..((IF n = Dynamic THEN 0 ELSE n) - 1) |-> Unset])]

PointCount(ps) == Cardinality(DOMAIN ps.entries)

IsFixed(n) == n # Dynamic

resize(ps, n) ==
    IF PointCount(ps) = n THEN ps
    ELSE [ps EXCEPT !.entries = Eval([i \in 0..(n - 1) |-> Unset])]

\* point_set.point(i, p, w) on the working state st = [ps, assigned]
point(st, i, p, w) ==
    [ps |-> IF i \in DOMAIN st.ps.entries
            THEN [st.ps EXCEPT !.entries[i] = [point |-> p, weight |-> w]]
            ELSE st.ps,
     assigned |-> Append(st.assigned, i)]

Weight(wm, wc) == [w_mean |-> wm, w_cov |-> wc]

(***************************************************************************)
(* UnscentedTransform; ut is the transform object [alpha_, beta_, kappa_]. *)
(***************************************************************************)
number_of_points(dimension) ==
    IF dimension # Dynamic THEN 2 * dimension + 1 ELSE Dynamic

lambda_scalar(ut, dim) ==
    Sub(Mul(Mul(ut.alpha_, ut.alpha_), Add(dim, ut.kappa_)), dim)

weight_mean_0(ut, dim) ==
    Div(lambda_scalar(ut, dim), Add(dim, lambda_scalar(ut, dim)))

weight_cov_0(ut, dim) ==
    Add(weight_mean_0(ut, dim),
        Add(Sub(One, Mul(ut.alpha_, ut.alpha_)), ut.beta_))

\* mutant: the factor 2 of the symmetric pair is dropped
weight_mean_i_no_pair(ut, dim) ==
    Div(One, Add(dim, lambda_scalar(ut, dim)))

weight_mean_i(ut, dim) ==
    Div(One, Mul(Int2Real(2), Add(dim, lambda_scalar(ut, dim))))

weight_cov_i(ut, dim) == weight_mean_i(ut, dim)

\* mutant: the square root is dropped
gamma_factor_no_sqrt(ut, dim) == Add(dim, lambda_scalar(ut, dim))

gamma_factor(ut, dim) == sqrt(Add(dim, lambda_scalar(ut, dim)))

\* mutant: the points before the Gaussian's own are left as they were
Loop1_not_written(st, c, i) == st

RECURSIVE Loop1(_, _, _)
Loop1(st, c, i) ==
    IF i < c.limit_1
    THEN Loop1(point(point(st, i, c.mean, c.weight_i),
                     c.global_dimension + i, c.mean, c.weight_i), c, i + 1)
    ELSE st

RECURSIVE Loop2_same_sign(_, _, _)
\* mutant: the pair is not symmetric, both points are mean + shift
Loop2_same_sign(st, c, i) ==
    IF i < c.limit_2
    THEN LET point_shift == col(c.covariance_sqrt, i - c.dimension_offset - 1)
         IN  Loop2_same_sign(
                 point(point(st, i, VAdd(c.mean, point_shift), c.weight_i),
                       c.global_dimension + i, VAdd(c.mean, point_shift),
                       c.weight_i), c, i + 1)
    ELSE st

RECURSIVE Loop2(_, _, _)
Loop2(st, c, i) ==
    IF i < c.limit_2
    THEN LET point_shift == col(c.covariance_sqrt, i - c.dimension_offset - 1)
         IN  Loop2(point(point(st, i, VAdd(c.mean, point_shift), c.weight_i),
                         c.global_dimension + i, VSub(c.mean, point_shift),
                         c.weight_i), c, i + 1)
    ELSE st

RECURSIVE Loop3_exclusive(_, _, _)
\* mutant: the last loop stops before limit_3
Loop3_exclusive(st, c, i) ==
    IF i < c.limit_3
    THEN Loop3_exclusive(point(point(st, i, c.mean, c.weight_i),
                               c.global_dimension + i, c.mean, c.weight_i),
                         c, i + 1)
    ELSE st

RECURSIVE Loop3(_, _, _)
Loop3(st, c, i) ==
    IF i <= c.limit_3
    THEN Loop3(point(point(st, i, c.mean, c.weight_i),
                     c.global_dimension + i, c.mean, c.weight_i), c, i + 1)
    ELSE st

\* mutant: only a point set that is too small is rejected
wrong_size_too_small_only(ps, point_count) ==
    IsFixed(ps.NumberOfPoints) /\ ps.NumberOfPoints < point_count

\* the size check of a fixed-size point set
wrong_size(ps, point_count) ==
    IsFixed(ps.NumberOfPoints) /\ ps.NumberOfPoints # point_count

\* forward(gaussian, global_dimension, dimension_offset, point_set):
\* the point set after the call, the exception thrown ("ok" if none) and
\* the indices assigned, in order; c holds the locals the loops read
forward(ut, g, G, o, ps) ==
    IF wrong_size(ps, number_of_points(G))
    THEN [ps |-> ps, thrown |-> "WrongSizeException", assigned |-> <<>>]
    ELSE The({ [ps |-> st.ps, thrown |-> "ok", assigned |-> st.assigned] :
               st \in {The({ Loop3(Loop2(Loop1(st0, c, 1), c, c.limit_1),
                                   c, c.limit_2) :
                   st0 \in {point([ps |-> resize(ps, number_of_points(G)),
                                   assigned |-> <<>>],
                                  0, g.mean,
                                  Weight(weight_mean_0(ut, Int2Real(G)),
                                         weight_cov_0(ut, Int2Real(G))))},
                   c \in {[mean |-> g.mean,
                           covariance_sqrt |->
                               MScale(g.square_root,
                                      gamma_factor(ut, Int2Real(G))),
                           weight_i |-> Weight(weight_mean_i(ut, Int2Real(G)),
                                               weight_cov_i(ut, Int2Real(G))),
                           global_dimension |-> G,
                           dimension_offset |-> o,
                           limit_1 |-> 1 + o,
                           limit_2 |-> 1 + o + g.dimension,
                           limit_3 |-> G]} })} })

Transform == [alpha_ |-> alpha_, beta_ |-> beta_, kappa_ |-> kappa_]

(***************************************************************************)
(* The transform as a state machine: a transform object is constructed     *)
(* with (alpha, beta, kappa), a point set type is chosen, and forward() is *)
(* called any number of times on the same point set.                       *)
(***************************************************************************)
\* the point set types: dynamic, and fixed for global dimension 2
Capacities == {Dynamic, number_of_points(2)}

UTInit ==
    /\ \E ut \in Transforms :
          /\ alpha_ = ut.alpha_
          /\ beta_ = ut.beta_
          /\ kappa_ = ut.kappa_
    /\ point_set \in {NewPointSet(n) : n \in Capacities}
    /\ gaussian = CHOOSE g \in Gaussians : g.dimension = 1
    /\ global_dimension = 1
    /\ dimension_offset = 0
    /\ thrown = "none"
    /\ assigned = <<>>
    /\ overwrote = FALSE

Forward ==
    \E g \in Gaussians, G \in 1..MaxGlobalDim :
      \E o \in 0..(G - g.dimension) :
        \E res \in {forward(Transform, g, G, o, point_set)} :
            /\ gaussian' = g
            /\ global_dimension' = G
            /\ dimension_offset' = o
            /\ point_set' = res.ps
            /\ thrown' = res.thrown
            /\ assigned' = res.assigned
            /\ overwrote' = (thrown = "ok"
                             /\ <<gaussian, global_dimension, dimension_offset>>
                                  # <<g, G, o>>)
            /\ UNCHANGED <<alpha_, beta_, kappa_>>

(***************************************************************************)
(* Dense matrix algebra (Eigen), on matrices given as functions from row   *)
(* index to row; inverse() by cofactors for sizes 1 and 2.                 *)
(***************************************************************************)
Rows(M) == Cardinality(DOMAIN M)
MAdd(A, B) ==
    Eval([i \in DOMAIN A |-> Eval([j \in DOMAIN A[i] |-> Add(A[i][j], B[i][j])])])
MSub(A, B) ==
    Eval([i \in DOMAIN A |-> Eval([j \in DOMAIN A[i] |-> Sub(A[i][j], B[i][j])])])
SMul(s, A) ==
    Eval([i \in DOMAIN A |-> Eval([j \in DOMAIN A[i] |-> Mul(s, A[i][j])])])
transpose(A) ==
    Eval([j \in DOMAIN A[0] |-> Eval([i \in DOMAIN A |-> A[i][j]])])
MMul(A, B) ==
    Eval([i \in DOMAIN A |-> Eval([j \in DOMAIN B[0] |->
        SumTo(Eval([k \in DOMAIN B |-> Mul(A[i][k], B[k][j])]), Rows(B) - 1)])])
\* u * v.transpose()
Outer(u, v) ==
    Eval([i \in DOMAIN u |-> Eval([j \in DOMAIN v |-> Mul(u[i], v[j])])])
AsColumn(v) == Eval([i \in DOMAIN v |-> Eval([j \in {0} |-> v[i]])])
inverse(M) ==
    IF Rows(M) = 1
    THEN Eval([i \in {0} |-> Eval([j \in {0} |-> Div(One, M[0][0])])])
    ELSE LET invdet == Div(One, Sub(Mul(M[0][0], M[1][1]), Mul(M[0][1], M[1][0])))
         IN  Eval([i \in 0..1 |-> Eval([j \in 0..1 |->
                 IF i = j THEN Mul(M[1 - i][1 - j], invdet)
                 ELSE Mul(Neg(M[i][j]), invdet)])])
\* solve(M, X): the solution of M * Z = X
solve(M, X) == MMul(inverse(M), X)

VARIABLES
    obsrv_function,     \* JointModel: selector id, per-sensor models, tail weight
    quadrature,         \* SigmaPointQuadrature: its transform
    prior_belief,       \* arguments of operator()
    y,
    posterior_belief,
    entry_id,           \* the selector at entry of the last operator() call
    calls,              \* what the last operator() call did, in order: the
                        \* calls on the model and the steps of the algorithm
    steps,              \* the accumulators C, D after each loop iteration
    op                  \* the operation performed last

upVars == <<obsrv_function, quadrature, prior_belief, y, posterior_belief,
            entry_id, calls, steps, op>>

(***************************************************************************)
(* PointSet accessors and the quadrature.                                  *)
(***************************************************************************)
\* PointSet::mean(): mean-weighted sum of the points
mean(ps) ==
    Eval([r \in DOMAIN ps.entries[0].point |->
        SumTo(Eval([k \in DOMAIN ps.entries |->
                  Mul(ps.entries[k].weight.w_mean, ps.entries[k].point[r])]),
              PointCount(ps) - 1)])
\* PointSet::centered_points(): one column per point, point minus mean
centered_points(ps) ==
    The({ Eval([r \in DOMAIN mu |-> Eval([k \in DOMAIN ps.entries |->
              Sub(ps.entries[k].point[r], mu[r])])]) :
          mu \in {mean(ps)} })
covariance_weights_vector(ps) ==
    Eval([k \in DOMAIN ps.entries |-> ps.entries[k].weight.w_cov])
\* A * W.asDiagonal() * B.transpose()
WeightedProduct(A, W, B) ==
    Eval([r \in DOMAIN A |-> Eval([c \in DOMAIN B |->
        SumTo(Eval([k \in DOMAIN W |-> Mul(Mul(A[r][k], W[k]), B[c][k])]),
              Cardinality(DOMAIN W) - 1)])])

\* Gaussian<LocalObsrvNoise> noise_distr: the standard normal of dimension 1
noise_distr == [dimension |-> 1, mean |-> Vec(<<0>>), square_root |-> Mat(<<<<1>>>>)]

\* NumberOfPoints of StatePointSet and LocalNoisePointSet, for a State of
\* the given size joined with the 1-dimensional noise
NumberOfPoints(state_size) == number_of_points(state_size + 1)

\* quadrature.transform_to_points(prior_belief, noise_distr, p_X, p_Q)
transform_to_points(q, belief, noise) ==
    [p_X |-> forward(q, belief, belief.dimension + noise.dimension, 0,
                     NewPointSet(NumberOfPoints(belief.dimension))).ps,
     p_Q |-> forward(q, noise, belief.dimension + noise.dimension,
                     belief.dimension,
                     NewPointSet(NumberOfPoints(belief.dimension))).ps]

\* quadrature.propagate_points(h, p_X, p_Q, p_Y), h given by its values
propagate_points(h, p_X, p_Q) ==
    [NumberOfPoints |-> p_X.NumberOfPoints,
     entries |-> Eval([k \in DOMAIN p_X.entries |->
        [point |-> h[k], weight |-> p_X.entries[k].weight]])]

(***************************************************************************)
(* The joint observation model.  Sensor s has a body and a tail model,     *)
(* observation(x, w) = gain*x + noise*w + offset componentwise, and a      *)
(* feature scale; the selector id routes every evaluation.                 *)
(***************************************************************************)
count_local_models(m) == Len(m.sensors)
CurrentSensor(m) == m.sensors[m.id + 1]
observation(part, x, w) ==
    Eval([c \in DOMAIN part.gain |->
        Add(Add(Mul(part.gain[c], x[0]), Mul(part.noise[c], w[0])), part.offset[c])])
feature_obsrv(m, obsrv) == VScale(CurrentSensor(m).feature, obsrv)

\* mutant: the selector is left as it is
select_sensor_not(m, i) == m

\* feature_model.id(i)
select_sensor(m, i) == [m EXCEPT !.id = i]

(***************************************************************************)
(* MultiSensorSigmaPointUpdatePolizzle                                     *)
(***************************************************************************)
\* mutant: only the first component of the range is looked at
is_valid_first_only(vector, start, end) ==
    IF start < end THEN isfinite(vector[start]) ELSE TRUE

RECURSIVE is_valid(_, _, _)
is_valid(vector, start, end) ==
    IF start < end
    THEN IF ~isfinite(vector[start]) THEN FALSE
         ELSE is_valid(vector, start + 1, end)
    ELSE TRUE

\* h_body / h_tail at every pair of points, read through the model's
\* current selector
h_values(m, part, c) ==
    Eval([k \in DOMAIN c.p_X.entries |->
        feature_obsrv(m, observation(CurrentSensor(m)[part],
                                     c.p_X.entries[k].point,
                                     c.p_Q.entries[k].point))])

\* the moments of one branch
integrate(m, part, c) ==
    The({ The({ [mu_y |-> mean(p_Y),
                 c_yy |-> WeightedProduct(Y, c.W, Y),
                 c_xy |-> WeightedProduct(c.X, c.W, Y)] :
                Y \in {centered_points(p_Y)} }) :
          p_Y \in {propagate_points(h_values(m, part, c), c.p_X, c.p_Q)} })

\* mutant: the body keeps the weight one
fuse_body_weight_one(t, body, tail_) ==
    LET b == One
        mu_y == VAdd(VScale(b, body.mu_y), VScale(t, tail_.mu_y))
        m_yy_body == MAdd(body.c_yy, Outer(body.mu_y, body.mu_y))
        m_yy_tail == MAdd(tail_.c_yy, Outer(tail_.mu_y, tail_.mu_y))
        m_yy == MAdd(SMul(b, m_yy_body), SMul(t, m_yy_tail))
    IN  [mu_y |-> mu_y,
         c_yy |-> MSub(m_yy, Outer(mu_y, mu_y)),
         c_xy |-> MAdd(SMul(b, body.c_xy), SMul(t, tail_.c_xy))]

\* fuse
fuse(t, body, tail_) ==
    LET b == Sub(One, t)
        mu_y == VAdd(VScale(b, body.mu_y), VScale(t, tail_.mu_y))
        m_yy_body == MAdd(body.c_yy, Outer(body.mu_y, body.mu_y))
        m_yy_tail == MAdd(tail_.c_yy, Outer(tail_.mu_y, tail_.mu_y))
        m_yy == MAdd(SMul(b, m_yy_body), SMul(t, m_yy_tail))
    IN  [mu_y |-> mu_y,
         c_yy |-> MSub(m_yy, Outer(mu_y, mu_y)),
         c_xy |-> MAdd(SMul(b, body.c_xy), SMul(t, tail_.c_xy))]

\* y.middleRows(start, n)
middleRows(v, start, n) == Eval([k \in 0..(n - 1) |-> v[start + k]])

\* the accumulation of one fused sensor into C and D
\* mutant: A_i is formed with the running C in place of c_xx_inv
accumulate_on_running(st, c, i, f) ==
    The({ The({ [C |-> MAdd(st.C, MMul(transpose(A_i), solve(c_yy_given_x, A_i))),
                 D |-> VAdd(st.D,
                            col(MMul(transpose(A_i),
                                     solve(c_yy_given_x, AsColumn(innovation))),
                                0))] :
                c_yy_given_x \in {MSub(f.c_yy, MMul(MMul(c_yx, c.c_xx_inv), f.c_xy))},
                A_i \in {MMul(c_yx, st.C)},
                innovation \in {VSub(middleRows(c.y, i * c.dim_y, c.dim_y), f.mu_y)} }) :
          c_yx \in {transpose(f.c_xy)} })

accumulate(st, c, i, f) ==
    The({ The({ [C |-> MAdd(st.C, MMul(transpose(A_i), solve(c_yy_given_x, A_i))),
                 D |-> VAdd(st.D,
                            col(MMul(transpose(A_i),
                                     solve(c_yy_given_x, AsColumn(innovation))),
                                0))] :
                c_yy_given_x \in {MSub(f.c_yy, MMul(MMul(c_yx, c.c_xx_inv), f.c_xy))},
                A_i \in {MMul(c_yx, c.c_xx_inv)},
                innovation \in {VSub(middleRows(c.y, i * c.dim_y, c.dim_y), f.mu_y)} }) :
          c_yx \in {transpose(f.c_xy)} })

Step(st, i, what, acc, mu_y_body) ==
    Append(st.steps, [sensor |-> i, outcome |-> what, C |-> acc.C, D |-> acc.D,
                      mu_y_body |-> mu_y_body])

\* mutant: the body mean is not validated
SensorStep_body_unchecked(st, c, i) ==
    IF ~is_valid(c.y, i * c.dim_y, i * c.dim_y + c.dim_y)
    THEN [st EXCEPT !.steps = Step(st, i, "invalid_y", st, <<>>)]
    ELSE The({ The({ [model |-> m, C |-> acc.C, D |-> acc.D,
                      calls |-> st.calls \o <<<<"id", i>>, <<"body", m.id>>,
                                               <<"tail", m.id>>, <<"fuse", i>>,
                                               <<"accumulate", i>>>>,
                      steps |-> Step(st, i, "fused", acc, body.mu_y)] :
                     acc \in {accumulate(st, c, i,
                                         fuse(m.tail_weight, body,
                                              integrate(m, "tail", c)))} }) :
               <<m, body>> \in {The({ <<sel, integrate(sel, "body", c)>> :
                                      sel \in {select_sensor(st.model, i)} })} })

\* mutant: the tail mean is validated as the body mean is
SensorStep_tail_checked(st, c, i) ==
    IF ~is_valid(c.y, i * c.dim_y, i * c.dim_y + c.dim_y)
    THEN [st EXCEPT !.steps = Step(st, i, "invalid_y", st, <<>>)]
    ELSE The({ IF ~is_valid(body.mu_y, 0, c.dim_y)
               THEN [st EXCEPT !.model = m,
                               !.calls = st.calls \o <<<<"id", i>>, <<"body", m.id>>>>,
                               !.steps = Step(st, i, "invalid_body", st, body.mu_y)]
               ELSE The({ IF ~is_valid(tail_.mu_y, 0, c.dim_y)
                          THEN [st EXCEPT
                                  !.model = m,
                                  !.calls = st.calls \o <<<<"id", i>>, <<"body", m.id>>,
                                                         <<"tail", m.id>>>>,
                                  !.steps = Step(st, i, "invalid_tail", st, body.mu_y)]
                          ELSE The({ [model |-> m, C |-> acc.C, D |-> acc.D,
                                      calls |-> st.calls
                                                \o <<<<"id", i>>, <<"body", m.id>>,
                                                     <<"tail", m.id>>, <<"fuse", i>>,
                                                     <<"accumulate", i>>>>,
                                      steps |-> Step(st, i, "fused", acc, body.mu_y)] :
                                     acc \in {accumulate(st, c, i,
                                                         fuse(m.tail_weight, body,
                                                              tail_))} }) :
                          tail_ \in {integrate(m, "tail", c)} }) :
               <<m, body>> \in {The({ <<sel, integrate(sel, "body", c)>> :
                                      sel \in {select_sensor(st.model, i)} })} })

\* one iteration of the loop over the sensors
SensorStep(st, c, i) ==
    IF ~is_valid(c.y, i * c.dim_y, i * c.dim_y + c.dim_y)
    THEN [st EXCEPT !.steps = Step(st, i, "invalid_y", st, <<>>)]
    ELSE The({ IF ~is_valid(body.mu_y, 0, c.dim_y)
               THEN [st EXCEPT !.model = m,
                               !.calls = st.calls \o <<<<"id", i>>, <<"body", m.id>>>>,
                               !.steps = Step(st, i, "invalid_body", st, body.mu_y)]
               ELSE The({ [model |-> m, C |-> acc.C, D |-> acc.D,
                           calls |-> st.calls \o <<<<"id", i>>, <<"body", m.id>>,
                                                    <<"tail", m.id>>, <<"fuse", i>>,
                                                    <<"accumulate", i>>>>,
                           steps |-> Step(st, i, "fused", acc, body.mu_y)] :
                          acc \in {accumulate(st, c, i,
                                              fuse(m.tail_weight, body,
                                                   integrate(m, "tail", c)))} }) :
               <<m, body>> \in {The({ <<sel, integrate(sel, "body", c)>> :
                                      sel \in {select_sensor(st.model, i)} })} })

RECURSIVE SensorLoop(_, _, _)
\* the loop, over the sensor indices order[1], order[2], ...
SensorLoop(st, c, order) ==
    IF order = <<>> THEN st
    ELSE SensorLoop(SensorStep(st, c, Head(order)), c, Tail(order))

\* INIT: the sigma points, their moments and the accumulators
Prepare(model, q, prior, y_) ==
    The({ The({ The({ [p_X |-> ps.p_X, p_Q |-> ps.p_Q, mu_x |-> mean(ps.p_X),
                       X |-> X, W |-> W, c_xx |-> c_xx,
                       c_xx_inv |-> inverse(c_xx), y |-> y_,
                       dim_y |-> Cardinality(DOMAIN y_)
                                   \div count_local_models(model)] :
                      c_xx \in {WeightedProduct(X, W, X)} }) :
                X \in {centered_points(ps.p_X)},
                W \in {covariance_weights_vector(ps.p_X)} }) :
          ps \in {transform_to_points(q, prior, noise_distr)} })

Start(model, c) ==
    [model |-> model, C |-> c.c_xx_inv,
     D |-> Eval([r \in DOMAIN c.mu_x |-> Zero]),
     calls |-> <<<<"init", count_local_models(model)>>>>, steps |-> <<>>]

\* mutant: the posterior mean is written to the prior belief as well
finalize_into_prior(st, c, prior) ==
    The({ [posterior_belief |->
              [dimension |-> prior.dimension, covariance |-> covariance,
               mean |-> VAdd(c.mu_x, col(MMul(covariance, AsColumn(st.D)), 0))],
           prior_belief |->
              [prior EXCEPT !.mean =
                  VAdd(c.mu_x, col(MMul(covariance, AsColumn(st.D)), 0))]] :
          covariance \in {inverse(st.C)} })

\* FINALIZE: the beliefs after the call
finalize(st, c, prior) ==
    The({ [posterior_belief |->
              [dimension |-> prior.dimension, covariance |-> covariance,
               mean |-> VAdd(c.mu_x, col(MMul(covariance, AsColumn(st.D)), 0))],
           prior_belief |-> prior] :
          covariance \in {inverse(st.C)} })

\* mutant: the loop counts down
SensorOrder_descending(n) == [i \in 1..n |-> n - i]

SensorOrder(n) == [i \in 1..n |-> i - 1]

\* operator()(obsrv_function, quadrature, prior_belief, y, posterior_belief)
\* with the loop run over the given sensor indices: what the call leaves in
\* the objects it was handed, and the calls and iterations it made
update_over(model, q, prior, y_, order) ==
    The({ The({ The({ [obsrv_function |-> st.model, quadrature |-> q,
                       prior_belief |-> fin.prior_belief, y |-> y_,
                       posterior_belief |-> fin.posterior_belief,
                       C |-> st.C, D |-> st.D, c_xx_inv |-> c.c_xx_inv,
                       mu_x |-> c.mu_x, dim_y |-> c.dim_y,
                       calls |-> st.calls
                                 \o <<<<"posterior_covariance",
                                        count_local_models(model)>>,
                                      <<"posterior_mean",
                                        count_local_models(model)>>>>,
                       steps |-> st.steps] :
                      fin \in {finalize(st, c, prior)} }) :
                st \in {SensorLoop(Start(model, c), c, order)} }) :
          c \in {Prepare(model, q, prior, y_)} })

update(model, q, prior, y_) ==
    update_over(model, q, prior, y_, SensorOrder(count_local_models(model)))

(***************************************************************************)
(* Inputs of the update model.                                             *)
(***************************************************************************)
RVec(seq) == Eval([i \in 0..(Len(seq) - 1) |-> seq[i + 1]])
Part(gain, noise, offset) ==
    [gain |-> Vec(gain), noise |-> Vec(noise), offset |-> RVec(offset)]

Sensor(body, tail, feature) == [body |-> body, tail |-> tail, feature |-> feature]
JointModel(sensors, tail_weight) ==
    [id |-> 0, sensors |-> sensors, tail_weight |-> tail_weight]

\* the joint models: sensors with 1-dimensional observations, among them
\* one whose body and one whose tail model returns NaN and two with equal
\* body and tail, under a tail weight of zero and of 1/4; and sensors with
\* 2-dimensional observations, among them
\* one whose body model returns +Inf in its second component
JointModels ==
    { JointModel(
        << Sensor(Part(<<1>>, <<1>>, <<Zero>>), Part(<<1>>, <<2>>, <<One>>), One),
           Sensor(Part(<<1>>, <<1>>, <<NaN>>), Part(<<1>>, <<2>>, <<One>>), One),
           Sensor(Part(<<2>>, <<1>>, <<One>>), Part(<<0>>, <<3>>, <<Zero>>),
                  Int2Real(2)) >>, Frac(1, 4)),
      JointModel(
        << Sensor(Part(<<1>>, <<1>>, <<One>>), Part(<<1>>, <<1>>, <<One>>), One),
           Sensor(Part(<<2>>, <<1>>, <<One>>), Part(<<0>>, <<3>>, <<Zero>>),
                  Int2Real(2)) >>, Zero),
      JointModel(
        << Sensor(Part(<<1>>, <<1>>, <<Zero>>), Part(<<1>>, <<2>>, <<NaN>>), One),
           Sensor(Part(<<1>>, <<1>>, <<Zero>>), Part(<<1>>, <<2>>, <<One>>), One) >>,
        Frac(1, 2)),
      JointModel(
        << Sensor(Part(<<1, 2>>, <<1, 0>>, <<Zero, One>>),
                  Part(<<1, 0>>, <<0, 2>>, <<One, Zero>>), One),
           Sensor(Part(<<0, 1>>, <<1, 1>>, <<Zero, Zero>>),
                  Part(<<1, 1>>, <<1, 0>>, <<Zero, One>>), Int2Real(2)) >>,
        Frac(1, 4)),
      JointModel(
        << Sensor(Part(<<1, 2>>, <<1, 0>>, <<Zero, PInf>>),
                  Part(<<1, 0>>, <<0, 2>>, <<One, Zero>>), One),
           Sensor(Part(<<1, 2>>, <<1, 0>>, <<Zero, One>>),
                  Part(<<1, 0>>, <<0, 2>>, <<One, Zero>>), One) >>,
        Frac(1, 2)),
      JointModel(
        << Sensor(Part(<<2>>, <<1>>, <<One>>), Part(<<2>>, <<1>>, <<One>>), One),
           Sensor(Part(<<1>>, <<1>>, <<Zero>>), Part(<<1>>, <<2>>, <<One>>), One) >>,
        Frac(1, 4)) }

ObsrvDim(model) == Cardinality(DOMAIN model.sensors[1].body.gain)

\* the measurement slices of one sensor
Slices(dim_y) ==
    IF dim_y = 1
    THEN {<<One>>, <<NaN>>, <<NInf>>}
    ELSE {<<One, Zero>>, <<One, NaN>>, <<PInf, Int2Real(2)>>}

RECURSIVE Concat(_, _)
Concat(slices, n) == IF n = 0 THEN <<>> ELSE Concat(slices, n - 1) \o slices[n]

Measurements(model) ==
    { RVec(Concat(f, count_local_models(model))) :
        f \in [1..count_local_models(model) -> Slices(ObsrvDim(model))] }

Belief(m, s) ==
    [dimension |-> 1, mean |-> Vec(<<m>>),
     square_root |-> Mat(<<<<s>>>>), covariance |-> Mat(<<<<s * s>>>>)]

\* the priors: two of dimension 1, and one of dimension 2 whose covariance
\* has rank 1
Priors ==
    { Belief(0, 1), Belief(1, 2),
      [dimension |-> 2, mean |-> Vec(<<1, 0>>),
       square_root |-> Mat(<<<<1, 0>>, <<0, 0>>>>),
       covariance |-> Mat(<<<<1, 0>>, <<0, 0>>>>)] }

Quadratures == {[alpha_ |-> One, beta_ |-> Int2Real(2), kappa_ |-> Zero]}

\* a default-constructed belief: standard normal
NewBelief == [dimension |-> 1, mean |-> Vec(<<0>>), covariance |-> Mat(<<<<1>>>>)]

(***************************************************************************)
(* The update as a state machine: the caller hands over a prior, a         *)
(* measurement and a fresh posterior (Call), then operator() runs (Update) *)
(* on the joint model, whose selector lives on between the calls.          *)
(***************************************************************************)
UpdateInit ==
    /\ obsrv_function \in JointModels
    /\ quadrature \in Quadratures
    /\ prior_belief \in Priors
    /\ y \in Measurements(obsrv_function)
    /\ posterior_belief = NewBelief
    /\ entry_id = obsrv_function.id
    /\ calls = <<>>
    /\ steps = <<>>
    /\ op = "call"

Call ==
    /\ prior_belief' \in {p \in Priors : p.dimension = prior_belief.dimension}
    /\ y' \in Measurements(obsrv_function)
    /\ posterior_belief' = NewBelief
    /\ entry_id' = obsrv_function.id
    /\ calls' = <<>>
    /\ steps' = <<>>
    /\ op' = "call"
    /\ UNCHANGED <<obsrv_function, quadrature>>

Update ==
    /\ op = "call"
    /\ \E res \in {update(obsrv_function, quadrature, prior_belief, y)} :
           /\ obsrv_function' = res.obsrv_function
           /\ quadrature' = res.quadrature
           /\ prior_belief' = res.prior_belief
           /\ y' = res.y
           /\ posterior_belief' = res.posterior_belief
           /\ calls' = res.calls
           /\ steps' = res.steps
    /\ op' = "update"
    /\ UNCHANGED entry_id

(***************************************************************************)
(* ff::Gaussian<Vector>, for a Vector of Dimension entries.                *)
(***************************************************************************)
VARIABLES
    mean_, covariance_, full_rank_, precision_, cholesky_factor_,
    log_normalizer_,            \* the members of the Gaussian
    seen_rank_deficient         \* whether a Covariance() call found a rank below Dimension

gaVars == <<mean_, covariance_, full_rank_, precision_, cholesky_factor_,
            log_normalizer_, seen_rank_deficient>>

Dimension == 2

MaxCovEntry == 2

\* the vectors handed to Mean() and LogProbability()
GaussianVectors ==
    {Vec(<<0, 0>>), Vec(<<1, 0 - 1>>), Vec(<<2, 1>>), Vec(<<0 - 3, 0>>)}

\* the matrices handed to Covariance(): symmetric positive semidefinite
GaussianCovariances ==
    { Mat(<<<<a, b>>, <<b, c>>>>) :
        <<a, b, c>> \in { t \in (0..MaxCovEntry) \X ((0 - MaxCovEntry)..MaxCovEntry)
                                 \X (0..MaxCovEntry) :
                            t[1] * t[3] - t[2] * t[2] >= 0 } }

Identity == Mat(<<<<1, 0>>, <<0, 1>>>>)
fabs(x) == IF Sign(x) < 0 THEN Neg(x) ELSE x
determinant(M) == Sub(Mul(M[0][0], M[1][1]), Mul(M[0][1], M[1][0]))

\* Eigen::LDLT of a 2x2 matrix: the pivot is the diagonal entry of largest
\* magnitude; p is its index, l the entry of L below the diagonal, D the
\* diagonal
ldlt(S) ==
    The({ IF S[p][p] = Zero
          THEN [p |-> p, l |-> Zero, D |-> Eval([i \in 0..1 |-> Zero])]
          ELSE [p |-> p, l |-> Div(S[0][1], S[p][p]),
                D |-> Eval([i \in 0..1 |->
                         IF i = 0 THEN S[p][p]
                         ELSE Sub(S[1 - p][1 - p],
                                  Mul(S[0][1], Div(S[0][1], S[p][p])))])] :
          p \in {IF Sign(Sub(fabs(S[1][1]), fabs(S[0][0]))) > 0 THEN 1 ELSE 0} })

\* transpositionsP().transpose() * L * D_sqrt.asDiagonal()
cholesky(f) ==
    The({ Eval([i \in 0..1 |-> Eval([j \in 0..1 |->
              IF i = f.p
              THEN (IF j = 0 THEN D_sqrt[0] ELSE Zero)
              ELSE (IF j = 0 THEN Mul(f.l, D_sqrt[0]) ELSE D_sqrt[1])])]) :
          D_sqrt \in {Eval([i \in 0..1 |-> sqrt(fabs(f.D[i]))])} })

\* colPivHouseholderQr().rank(): the number of non-zero pivots
rank(M) ==
    IF \A i, j \in 0..1 : M[i][j] = Zero THEN 0
    ELSE IF determinant(M) = Zero THEN 1
    ELSE 2

\* -0.5 * (log(det) + rows * log(2.0 * M_PI)), kept as the expression it is
LogNormalizer(det, rows) ==
    [k |-> IF Sign(det) > 0 THEN "fin" ELSE IF det = Zero THEN "pinf" ELSE "nan",
     det |-> det, rows |-> rows]

Gaussian ==
    [mean_ |-> mean_, covariance_ |-> covariance_, full_rank_ |-> full_rank_,
     precision_ |-> precision_, cholesky_factor_ |-> cholesky_factor_,
     log_normalizer_ |-> log_normalizer_]

Mean(g, v) == [g EXCEPT !.mean_ = v]

\* mutant: a rank below Dimension leaves full_rank_ as it was
Covariance_rank_kept(g, S) ==
    IF rank(S) = Dimension
    THEN [g EXCEPT !.covariance_ = S,
                   !.cholesky_factor_ = cholesky(ldlt(S)),
                   !.full_rank_ = TRUE,
                   !.precision_ = inverse(S),
                   !.log_normalizer_ = LogNormalizer(determinant(S), Dimension)]
    ELSE [g EXCEPT !.covariance_ = S,
                   !.cholesky_factor_ = cholesky(ldlt(S))]

Covariance(g, S) ==
    IF rank(S) = Dimension
    THEN [g EXCEPT !.covariance_ = S,
                   !.cholesky_factor_ = cholesky(ldlt(S)),
                   !.full_rank_ = TRUE,
                   !.precision_ = inverse(S),
                   !.log_normalizer_ = LogNormalizer(determinant(S), Dimension)]
    ELSE [g EXCEPT !.covariance_ = S,
                   !.cholesky_factor_ = cholesky(ldlt(S)),
                   !.full_rank_ = FALSE]

SetUnit(g) ==
    Covariance(Mean([g EXCEPT !.full_rank_ = TRUE], Vec(<<0, 0>>)), Identity)

\* the value -infinity, and log_normalizer - 0.5 * quadratic
NegInfinity ==
    [k |-> "ninf", log_normalizer |-> LogNormalizer(Zero, 0), quadratic |-> Zero]
LogValue(log_normalizer, quadratic) ==
    [k |-> IF log_normalizer.k = "nan" \/ quadratic.k = "nan" THEN "nan"
           ELSE IF log_normalizer.k = "pinf"
                THEN (IF quadratic.k = "pinf" THEN "nan" ELSE "pinf")
           ELSE IF quadratic.k = "pinf" THEN "ninf"
           ELSE IF quadratic.k = "ninf" THEN "pinf"
           ELSE "fin",
     log_normalizer |-> log_normalizer, quadratic |-> quadratic]

quadratic_form(d, P) ==
    col(MMul(MMul(transpose(AsColumn(d)), P), AsColumn(d)), 0)[0]

LogProbability(g, vector) ==
    IF g.full_rank_
    THEN LogValue(g.log_normalizer_,
                  quadratic_form(VSub(vector, g.mean_), g.precision_))
    ELSE NegInfinity

\* the object the constructor leaves: the members resized, then SetUnit()
Constructed ==
    SetUnit([mean_ |-> Vec(<<0, 0>>), covariance_ |-> Mat(<<<<0, 0>>, <<0, 0>>>>),
             full_rank_ |-> FALSE, precision_ |-> Mat(<<<<0, 0>>, <<0, 0>>>>),
             cholesky_factor_ |-> Mat(<<<<0, 0>>, <<0, 0>>>>),
             log_normalizer_ |-> LogNormalizer(Zero, 0)])

Assigned(g) ==
    /\ mean_' = g.mean_
    /\ covariance_' = g.covariance_
    /\ full_rank_' = g.full_rank_
    /\ precision_' = g.precision_
    /\ cholesky_factor_' = g.cholesky_factor_
    /\ log_normalizer_' = g.log_normalizer_
    /\ seen_rank_deficient' = (seen_rank_deficient \/ ~g.full_rank_)

GaussianInit ==
    \E g \in {Constructed} :
        /\ mean_ = g.mean_
        /\ covariance_ = g.covariance_
        /\ full_rank_ = g.full_rank_
        /\ precision_ = g.precision_
        /\ cholesky_factor_ = g.cholesky_factor_
        /\ log_normalizer_ = g.log_normalizer_
        /\ seen_rank_deficient = FALSE

CallSetUnit == \E g \in {SetUnit(Gaussian)} : Assigned(g)

CallMean == \E v \in GaussianVectors : \E g \in {Mean(Gaussian, v)} : Assigned(g)

CallCovariance ==
    \E S \in GaussianCovariances : \E g \in {Covariance(Gaussian, S)} : Assigned(g)

(***************************************************************************)
(* StateTransitionDensity<State, Input>: the batch interface, over a       *)
(* density whose log_probability is that of a linear model with State and  *)
(* Input the same scalar type.  Arrays are sequences: entry i of the code  *)
(* is entry i + 1 here.                                                    *)
(***************************************************************************)
VARIABLES
    states, cond_states, cond_inputs, dt,   \* the arguments of the batch calls
    probs,                                  \* the array the last call returned
    failed,                                 \* "assertion" if its assert failed
    evaluated                               \* the member called last

tdVars == <<states, cond_states, cond_inputs, dt, probs, failed, evaluated>>

MaxBatch == 2

\* std::exp and Array::exp() per entry, kept symbolic: two results are equal
\* exactly when their arguments are
exp(x) == [exp |-> x]

\* log_probability of the implementing density: the state is expected at
\* cond_state + cond_input * dt
log_probability(state, cond_state, cond_input, dt_) ==
    0 - (state - (cond_state + cond_input * dt_))
          * (state - (cond_state + cond_input * dt_))

probability(state, cond_state, cond_input, dt_) ==
    exp(log_probability(state, cond_state, cond_input, dt_))

log_probabilities(states_, cond_states_, cond_inputs_, dt_) ==
    IF Len(states_) # Len(cond_inputs_)
    THEN [failed |-> "assertion", probs |-> <<>>]
    ELSE [failed |-> "none",
          probs |-> Eval([i \in 1..Len(states_) |->
                        log_probability(states_[i], cond_states_[i],
                                        cond_inputs_[i], dt_)])]

probabilities(states_, cond_states_, cond_inputs_, dt_) ==
    The({ [failed |-> res.failed,
           probs |-> Eval([i \in DOMAIN res.probs |-> exp(res.probs[i])])] :
          res \in {log_probabilities(states_, cond_inputs_, cond_inputs_, dt_)} })

\* the batches a caller hands over: states and cond_states of one size, and
\* as many cond_inputs or one more, with entries 0 or 1; dt is 1 or 2
DensityInit ==
    /\ \E n \in 0..MaxBatch :
          /\ states \in [1..n -> 0..1]
          /\ cond_states \in [1..n -> 0..1]
          /\ \E m \in {n, n + 1} \cap (0..MaxBatch) :
                cond_inputs \in [1..m -> 0..1]
    /\ dt \in {1, 2}
    /\ probs = <<>>
    /\ failed = "none"
    /\ evaluated = "none"

CallLogProbabilities ==
    /\ \E res \in {log_probabilities(states, cond_states, cond_inputs, dt)} :
          /\ probs' = res.probs
          /\ failed' = res.failed
    /\ evaluated' = "log_probabilities"
    /\ UNCHANGED <<states, cond_states, cond_inputs, dt>>

CallProbabilities ==
    /\ \E res \in {probabilities(states, cond_states, cond_inputs, dt)} :
          /\ probs' = res.probs
          /\ failed' = res.failed
    /\ evaluated' = "probabilities"
    /\ UNCHANGED <<states, cond_states, cond_inputs, dt>>

DensityIdle ==
    /\ states = <<>> /\ cond_states = <<>> /\ cond_inputs = <<>>
    /\ dt = 1
    /\ probs = <<>>
    /\ failed = "none"
    /\ evaluated = "none"

(***************************************************************************)
(* DiscreteDistribution<Variate> over scalar locations.  Arrays are        *)
(* sequences: entry i of the code is entry i + 1 here.  A log probability  *)
(* mass is [k, q], the value k * ln(2) - ln(q) for an integer k and a      *)
(* rational q > 0, so that exp(), sum() and std::log() are exact; the      *)
(* entries of one array share their q.                                     *)
(***************************************************************************)
VARIABLES
    locations_, log_prob_mass_, prob_mass_, cumul_distr_,   \* the members
    moment,         \* the last mean(): the value it returned, or that it
                    \* failed; mean 0 if mean() was not called last
    invoked         \* the member called last

ddVars == <<locations_, log_prob_mass_, prob_mass_, cumul_distr_, moment, invoked>>

MaxSize == 3
MaxLogDepth == 2

\* Array::maxCoeff() of log probability masses
maxCoeff(a) ==
    CHOOSE m \in {a[i].k : i \in DOMAIN a} : \A i \in DOMAIN a : a[i].k <= m

\* a[1] + ... + a[n]
RECURSIVE PartialSum(_, _)
PartialSum(a, n) == IF n = 0 THEN R0 ELSE RAdd(PartialSum(a, n - 1), a[n])

\* log_unnormalized_prob_mass(log_prob_mass) on the object d; fresh is what
\* the storage holds that locations_.resize() allocates when the size changes
log_unnormalized_prob_mass(d, log_prob_mass, fresh) ==
    The({ The({ The({
        [locations_ |-> IF Len(d.locations_) = Len(log_prob_mass)
                        THEN d.locations_ ELSE fresh,
         log_prob_mass_ |-> Eval([i \in DOMAIN rescaled |->
                                [k |-> rescaled[i], q |-> sum]]),
         prob_mass_ |-> normalized,
         cumul_distr_ |-> Eval([i \in DOMAIN normalized |->
                                PartialSum(normalized, i)])] :
        normalized \in {Eval([i \in DOMAIN exps |-> RDiv(exps[i], sum)])} }) :
        sum \in {PartialSum(exps, Len(exps))} }) :
        <<rescaled, exps>> \in
            {The({ <<r, Eval([i \in DOMAIN r |-> Rat(1, 2 ^ (0 - r[i]))])>> :
                   r \in {Eval([i \in DOMAIN log_prob_mass |->
                               log_prob_mass[i].k - maxCoeff(log_prob_mass)])} })} })

delta_log_prob_mass(d, delta, fresh) ==
    log_unnormalized_prob_mass(
        d,
        Eval([i \in DOMAIN d.log_prob_mass_ |->
            [k |-> d.log_prob_mass_[i].k + delta[i], q |-> d.log_prob_mass_[i].q]]),
        fresh)

set_uniform(d, new_size, fresh) ==
    log_unnormalized_prob_mass(
        d, Eval([i \in 1..new_size |-> [k |-> 0, q |-> R1]]), fresh)

\* from_distribution(distribution, new_size), given the samples drawn
from_distribution(d, new_locations, fresh) ==
    [set_uniform(d, Len(new_locations), fresh) EXCEPT !.locations_ = new_locations]

\* mean(): prob_mass(i) read for every location; stray is what a read past
\* the end of prob_mass_ returns
DiscreteMean(d, stray) ==
    PartialSum(Eval([i \in DOMAIN d.locations_ |->
                      RMul(IF i \in DOMAIN d.prob_mass_ THEN d.prob_mass_[i]
                           ELSE stray,
                           RInt(d.locations_[i]))]),
               Len(d.locations_))

Discrete ==
    [locations_ |-> locations_, log_prob_mass_ |-> log_prob_mass_,
     prob_mass_ |-> prob_mass_, cumul_distr_ |-> cumul_distr_]

\* the members after a setter returned d
Stored(d, what) ==
    /\ \A i \in DOMAIN d.log_prob_mass_ : d.log_prob_mass_[i].k >= 0 - MaxLogDepth
    /\ locations_' = d.locations_
    /\ log_prob_mass_' = d.log_prob_mass_
    /\ prob_mass_' = d.prob_mass_
    /\ cumul_distr_' = d.cumul_distr_
    /\ moment' = [mean |-> R0, failed |-> "none"]
    /\ invoked' = what

\* DiscreteDistribution(dim): one location Variate::Zero, log_prob_mass_
\* Function::Zero(1), cumul_distr_ one entry 1; prob_mass_ is not assigned
\* and stays the empty array of its default construction
DiscreteInit ==
    /\ locations_ = <<0>>
    /\ log_prob_mass_ = <<[k |-> 0, q |-> R1]>>
    /\ prob_mass_ = <<>>
    /\ cumul_distr_ = <<R1>>
    /\ moment = [mean |-> R0, failed |-> "none"]
    /\ invoked = "DiscreteDistribution"

CallLogUnnormalizedProbMass ==
    \E n \in 1..MaxSize : \E ks \in [1..n -> (0 - MaxLogDepth)..0] :
    \E fresh \in [1..n -> 0..1] :
    \E d \in {log_unnormalized_prob_mass(
                  Discrete, Eval([i \in 1..n |-> [k |-> ks[i], q |-> R1]]), fresh)} :
        Stored(d, "log_unnormalized_prob_mass")

CallDeltaLogProbMass ==
    \E delta \in [DOMAIN log_prob_mass_ -> {0 - 1, 0}] :
    \E d \in {delta_log_prob_mass(Discrete, delta, locations_)} :
        Stored(d, "delta_log_prob_mass")

CallSetUniform ==
    \E n \in 1..MaxSize : \E fresh \in [1..n -> 0..1] :
    \E d \in {set_uniform(Discrete, n, fresh)} :
        Stored(d, "set_uniform")

CallFromDistribution ==
    \E n \in 1..MaxSize : \E samples \in [1..n -> 0..1] :
    \E d \in {from_distribution(Discrete, samples, samples)} :
        Stored(d, "from_distribution")

\* mean(); a read past the end of prob_mass_ fails Eigen's index assertion
\* or, without assertions, returns whatever lies there
CallDiscreteMean ==
    /\ moment' \in {[mean |-> DiscreteMean(Discrete, stray), failed |-> "none"] :
                         stray \in {R0, R1}}
                   \cup (IF Len(prob_mass_) < Len(locations_)
                         THEN {[mean |-> R0, failed |-> "assertion"]} ELSE {})
    /\ invoked' = "mean"
    /\ UNCHANGED <<locations_, log_prob_mass_, prob_mass_, cumul_distr_>>

UTIdle ==
    /\ alpha_ = One /\ beta_ = Int2Real(2) /\ kappa_ = Zero
    /\ point_set = NewPointSet(Dynamic)
    /\ gaussian = CHOOSE g \in Gaussians : g.dimension = 1
    /\ global_dimension = 1
    /\ dimension_offset = 0
    /\ thrown = "none"
    /\ assigned = <<>>
    /\ overwrote = FALSE

UpdateIdle ==
    /\ obsrv_function = JointModel(<<Sensor(Part(<<1>>, <<1>>, <<Zero>>),
                                          Part(<<1>>, <<2>>, <<One>>), One)>>, Zero)
    /\ quadrature = [alpha_ |-> One, beta_ |-> Int2Real(2), kappa_ |-> Zero]
    /\ prior_belief = Belief(0, 1)
    /\ y = RVec(<<One>>)
    /\ posterior_belief = NewBelief
    /\ entry_id = 0
    /\ calls = <<>>
    /\ steps = <<>>
    /\ op = "none"

vars == <<utVars, upVars, gaVars, tdVars, ddVars>>

InitUT == UTInit /\ UpdateIdle /\ GaussianInit /\ DensityIdle /\ DiscreteInit

NextUT == Forward /\ UNCHANGED <<upVars, gaVars, tdVars, ddVars>>

SpecUT == InitUT /\ [][NextUT]_vars

InitUpdate == UTIdle /\ UpdateInit /\ GaussianInit /\ DensityIdle /\ DiscreteInit

NextUpdate ==
    \/ Call /\ UNCHANGED <<utVars, gaVars, tdVars, ddVars>>
    \/ Update /\ UNCHANGED <<utVars, gaVars, tdVars, ddVars>>

SpecUpdate == InitUpdate /\ [][NextUpdate]_vars

InitGaussian == UTIdle /\ UpdateIdle /\ GaussianInit /\ DensityIdle /\ DiscreteInit

NextGaussian ==
    \/ CallSetUnit /\ UNCHANGED <<utVars, upVars, tdVars, ddVars>>
    \/ CallMean /\ UNCHANGED <<utVars, upVars, tdVars, ddVars>>
    \/ CallCovariance /\ UNCHANGED <<utVars, upVars, tdVars, ddVars>>

SpecGaussian == InitGaussian /\ [][NextGaussian]_vars

InitDensity ==
    UTIdle /\ UpdateIdle /\ GaussianInit /\ DensityInit /\ DiscreteInit

NextDensity ==
    \/ CallLogProbabilities /\ UNCHANGED <<utVars, upVars, gaVars, ddVars>>
    \/ CallProbabilities /\ UNCHANGED <<utVars, upVars, gaVars, ddVars>>

SpecDensity == InitDensity /\ [][NextDensity]_vars

InitDiscrete == UTIdle /\ UpdateIdle /\ GaussianInit /\ DensityIdle /\ DiscreteInit

NextDiscrete ==
    \/ CallLogUnnormalizedProbMass /\ UNCHANGED <<utVars, upVars, gaVars, tdVars>>
    \/ CallDeltaLogProbMass /\ UNCHANGED <<utVars, upVars, gaVars, tdVars>>
    \/ CallSetUniform /\ UNCHANGED <<utVars, upVars, gaVars, tdVars>>
    \/ CallFromDistribution /\ UNCHANGED <<utVars, upVars, gaVars, tdVars>>
    \/ CallDiscreteMean /\ UNCHANGED <<utVars, upVars, gaVars, tdVars>>

SpecDiscrete == InitDiscrete /\ [][NextDiscrete]_vars

(***************************************************************************)
(* Claims about the transform.  The expected values are written out from   *)
(* the claims' formulas, not taken from the transform's operators.         *)
(***************************************************************************)
ClaimG == Int2Real(global_dimension)
ClaimAlphaSq == Mul(alpha_, alpha_)
ClaimLambda == Sub(Mul(ClaimAlphaSq, Add(ClaimG, kappa_)), ClaimG)
ClaimScale == Add(ClaimG, ClaimLambda)
ClaimWMean0 == Div(ClaimLambda, ClaimScale)
ClaimWCov0 == Add(ClaimWMean0, Add(Sub(One, ClaimAlphaSq), beta_))
ClaimWi == Div(One, Mul(Int2Real(2), ClaimScale))
ClaimShift(k) ==
    [r \in 0..(gaussian.dimension - 1) |->
        Mul(gaussian.square_root[r][k - dimension_offset - 1], sqrt(ClaimScale))]
ClaimOwn(k) ==
    dimension_offset < k /\ k <= dimension_offset + gaussian.dimension
ClaimPoint(k) == point_set.entries[k].point
ClaimWeight(k) == point_set.entries[k].weight
ClaimPadded ==
    /\ thrown = "ok"
    /\ dimension_offset > 0
    /\ dimension_offset + gaussian.dimension < global_dimension

\* C1: after a successful forward(gaussian, G, o, point_set), point 0 is the
\* mean with weight (w_mean_0, w_mean_0 + (1 - alpha^2 + beta)); for every
\* k in 1..G points k and G+k carry (w_i, w_i), w_i = 1/(2(G+lambda)), and
\* are mean + c and mean - c (c = column k-o-1 of square_root*gamma) when
\* o < k <= o+d, and the mean itself for every other k.
PointLayout ==
    thrown = "ok" =>
        /\ ClaimPoint(0) = gaussian.mean
        /\ ClaimWeight(0) = Weight(ClaimWMean0, ClaimWCov0)
        /\ \A k \in 1..global_dimension :
            /\ ClaimWeight(k) = Weight(ClaimWi, ClaimWi)
            /\ ClaimWeight(global_dimension + k) = Weight(ClaimWi, ClaimWi)
            /\ IF ClaimOwn(k)
               THEN /\ ClaimPoint(k) = VAdd(gaussian.mean, ClaimShift(k))
                    /\ ClaimPoint(global_dimension + k)
                         = VSub(gaussian.mean, ClaimShift(k))
               ELSE /\ ClaimPoint(k) = gaussian.mean
                    /\ ClaimPoint(global_dimension + k) = gaussian.mean

\* C1 witness: a finished call with placeholder points before and after the
\* Gaussian's own range, a non-zero spread and a kurtosis term in w_cov_0
PointLayoutWitness ==
    /\ ClaimPadded
    /\ isfinite(sqrt(ClaimScale)) /\ sqrt(ClaimScale) # Zero
    /\ ClaimWCov0 # ClaimWMean0
    /\ ClaimPoint(dimension_offset + 1) # gaussian.mean

\* C2: a successful forward() leaves exactly 2G+1 points, has assigned every
\* index 0..2G exactly once and no index outside 0..2G.
EveryIndexAssignedOnce ==
    thrown = "ok" =>
        /\ PointCount(point_set) = 2 * global_dimension + 1
        /\ DOMAIN point_set.entries = 0..(2 * global_dimension)
        /\ \A i \in 0..(2 * global_dimension) :
              Cardinality({j \in 1..Len(assigned) : assigned[j] = i}) = 1
        /\ \A j \in 1..Len(assigned) : assigned[j] \in 0..(2 * global_dimension)
        /\ \A i \in DOMAIN point_set.entries : point_set.entries[i] # Unset

\* C2 witness: a finished call in which each of the three loops ran
EveryIndexAssignedOnceWitness ==
    /\ ClaimPadded
    /\ gaussian.dimension >= 1
    /\ Len(assigned) = 2 * global_dimension + 1

\* C3: a forward() on a fixed-capacity point set whose number of points is
\* not 2*global_dimension+1 throws WrongSizeException and leaves the point
\* set as it was: not resized, nothing written.
SizeMismatchLeavesPointSet ==
    [][(IsFixed(point_set.NumberOfPoints)
          /\ point_set.NumberOfPoints # 2 * global_dimension' + 1)
        => (/\ thrown' = "WrongSizeException"
            /\ point_set' = point_set
            /\ assigned' = <<>>)]_vars

\* C3 witness: a call failed on a point set that an earlier call had filled
SizeMismatchWitness ==
    /\ thrown = "WrongSizeException"
    /\ IsFixed(point_set.NumberOfPoints)
    /\ point_set.NumberOfPoints # 2 * global_dimension + 1
    /\ \A i \in DOMAIN point_set.entries : point_set.entries[i] # Unset

ClaimMeanWeightSum ==
    SumTo([k \in 0..(2 * global_dimension) |-> ClaimWeight(k).w_mean],
          2 * global_dimension)
ClaimWeightedMean ==
    [r \in 0..(gaussian.dimension - 1) |->
        SumTo([k \in 0..(2 * global_dimension) |->
                  Mul(ClaimWeight(k).w_mean, ClaimPoint(k)[r])],
              2 * global_dimension)]

\* C4 as claimed: whenever G + lambda # 0 the mean weights sum to one and the
\* mean-weighted sum of the points is the Gaussian's mean.
MeanReconstructedNonZeroScale ==
    (thrown = "ok" /\ ClaimScale # Zero) =>
        /\ ClaimMeanWeightSum = One
        /\ ClaimWeightedMean = gaussian.mean

\* C4 amended: whenever G + lambda # 0 the mean weights sum to one, and
\* whenever G + lambda > 0 the mean-weighted sum of the points is the
\* Gaussian's mean.
MeanReconstructed ==
    /\ (thrown = "ok" /\ ClaimScale # Zero) => ClaimMeanWeightSum = One
    /\ (thrown = "ok" /\ Sign(ClaimScale) > 0) =>
            ClaimWeightedMean = gaussian.mean

\* C4 witness: a finished call with G + lambda > 0, an irrational gamma and
\* placeholder points
MeanReconstructedWitness ==
    /\ ClaimPadded
    /\ Sign(ClaimScale) > 0
    /\ sqrt(ClaimScale).b # R0
    /\ ClaimWMean0 # Zero

ClaimCovEstimate(r, c) ==
    SumTo([k \in 0..(2 * global_dimension) |->
              Mul(ClaimWeight(k).w_cov,
                  Mul(Sub(ClaimPoint(k)[r], gaussian.mean[r]),
                      Sub(ClaimPoint(k)[c], gaussian.mean[c])))],
          2 * global_dimension)
ClaimSST(r, c) ==
    SumTo([j \in 0..(gaussian.dimension - 1) |->
              Mul(gaussian.square_root[r][j], gaussian.square_root[c][j])],
          gaussian.dimension - 1)

\* C5: whenever G + lambda > 0, the covariance-weighted outer-product
\* estimate over the generated points equals square_root * square_root^T.
CovarianceReconstructed ==
    (thrown = "ok" /\ Sign(ClaimScale) > 0) =>
        \A r, c \in 0..(gaussian.dimension - 1) :
            ClaimCovEstimate(r, c) = ClaimSST(r, c)

\* C5 witness: a finished call with G + lambda > 0, padding on both sides, a
\* non-zero kurtosis term and a square root with an off-diagonal entry
CovarianceReconstructedWitness ==
    /\ thrown = "ok"
    /\ Sign(ClaimScale) > 0
    /\ dimension_offset > 0
    /\ gaussian.dimension = 2
    /\ dimension_offset + gaussian.dimension <= global_dimension
    /\ ClaimWCov0 # ClaimWMean0
    /\ ClaimSST(0, 1) # Zero

(***************************************************************************)
(* Claims about the multi-sensor update.  They are stated on the state an  *)
(* operator() call leaves (op = "update"): the objects handed to the call, *)
(* the calls it made on the model and the accumulators after each          *)
(* iteration of the loop.                                                  *)
(***************************************************************************)
ClaimSensorCount == Len(obsrv_function.sensors)
ClaimDimY == Cardinality(DOMAIN y) \div ClaimSensorCount
ClaimSliceNonFinite(i) ==
    \E k \in 0..(ClaimDimY - 1) : ~isfinite(y[i * ClaimDimY + k])
\* the accumulators before iteration i + 1: C = c_xx^-1 and D = 0 at first
ClaimAccBefore(i) ==
    IF i = 0
    THEN [C |-> inverse(prior_belief.covariance),
          D |-> [r \in DOMAIN prior_belief.mean |-> Zero]]
    ELSE [C |-> steps[i].C, D |-> steps[i].D]
ClaimAccAfter(i) == [C |-> steps[i + 1].C, D |-> steps[i + 1].D]
ClaimCalled(what, i) == \E j \in 1..Len(calls) : calls[j] = <<what, i>>
ClaimModelAtEntry == [obsrv_function EXCEPT !.id = entry_id]
ClaimWithout(i) ==
    LET Keep(s) == s # i
    IN  SelectSeq(SensorOrder(ClaimSensorCount), Keep)
ClaimBodyMeanNonFinite(i) ==
    /\ steps[i + 1].mu_y_body # <<>>
    /\ \E k \in DOMAIN steps[i + 1].mu_y_body :
          ~isfinite(steps[i + 1].mu_y_body[k])

\* C6: in one update, a sensor i whose measurement slice has a non-finite
\* component leaves C and D unchanged, is never selected on the model, has
\* neither its body nor its tail model evaluated, and the posterior is the
\* one of the loop run over the other sensors only.
SensorSkipped ==
    op = "update" =>
        \A i \in 0..(ClaimSensorCount - 1) :
            ClaimSliceNonFinite(i) =>
                /\ ClaimAccAfter(i) = ClaimAccBefore(i)
                /\ ~ClaimCalled("id", i)
                /\ ~ClaimCalled("body", i)
                /\ ~ClaimCalled("tail", i)
                /\ posterior_belief =
                     update_over(ClaimModelAtEntry, quadrature, prior_belief, y,
                                 ClaimWithout(i)).posterior_belief

\* C6 witness: an update in which a sensor whose slice starts with a finite
\* component and holds a non-finite one was skipped, after a sensor that was
\* fused
SensorSkippedWitness ==
    /\ op = "update"
    /\ ClaimDimY = 2
    /\ ClaimSliceNonFinite(1)
    /\ isfinite(y[ClaimDimY])
    /\ steps[1].outcome = "fused"
    /\ isfinite(posterior_belief.mean[0])
    /\ posterior_belief.mean # prior_belief.mean

\* C7: a sensor with a finite measurement slice and a body mean with a
\* non-finite component is left out of the fusion: C and D are unchanged by
\* it, its tail branch is not evaluated, and the loop goes on with the next
\* sensor (one iteration per sensor, in order, each with its own outcome)
\* and ends without an error.
BodyMeanSkipped ==
    op = "update" =>
        /\ Len(steps) = ClaimSensorCount
        /\ \A i \in 0..(ClaimSensorCount - 1) :
            /\ steps[i + 1].sensor = i
            /\ (~ClaimSliceNonFinite(i) /\ ClaimBodyMeanNonFinite(i)) =>
                  /\ ClaimAccAfter(i) = ClaimAccBefore(i)
                  /\ ClaimCalled("body", i)
                  /\ ~ClaimCalled("tail", i)
                  /\ steps[i + 1].outcome = "invalid_body"

\* C7 witness: a sensor was left out for its body mean between two sensors
\* that were fused
BodyMeanSkippedWitness ==
    /\ op = "update"
    /\ ClaimSensorCount = 3
    /\ steps[1].outcome = "fused"
    /\ ~ClaimSliceNonFinite(1) /\ ClaimBodyMeanNonFinite(1)
    /\ steps[3].outcome = "fused"
    /\ ClaimAccAfter(2) # ClaimAccBefore(2)

\* C8: the posterior mean and covariance of an update are those of the same
\* update (same prior, measurement and model parameters) started with any
\* other value of the selector, whatever calls were made before.
SelectorAtEntryIrrelevant ==
    op = "update" =>
        \A s \in 0..(ClaimSensorCount - 1) :
            \E res \in {update([obsrv_function EXCEPT !.id = s], quadrature,
                               prior_belief, y)} :
                /\ res.posterior_belief.mean = posterior_belief.mean
                /\ res.posterior_belief.covariance = posterior_belief.covariance

\* C8 witness: an update entered with the selector an earlier update left on
\* another sensor than the first, in which the first sensor was skipped and
\* another one fused
SelectorAtEntryIrrelevantWitness ==
    /\ op = "update"
    /\ entry_id # 0
    /\ steps[1].outcome = "invalid_y"
    /\ \E k \in 2..Len(steps) : steps[k].outcome = "fused" /\ steps[k].sensor # entry_id
    /\ isfinite(posterior_belief.mean[0])

\* C9: an update call leaves the prior belief, the measurement, the
\* quadrature and every part of the model but the selector as they were.
UpdateFrame ==
    [][op' = "update" =>
          /\ prior_belief' = prior_belief
          /\ y' = y
          /\ quadrature' = quadrature
          /\ obsrv_function'.sensors = obsrv_function.sensors
          /\ obsrv_function'.tail_weight = obsrv_function.tail_weight
          /\ Len(obsrv_function'.sensors) = Len(obsrv_function.sensors)
          /\ [obsrv_function' EXCEPT !.id = obsrv_function.id] = obsrv_function]_vars

\* C9 witness: an update that skipped a sensor, fused another, moved the
\* selector and wrote a posterior that differs from the prior
UpdateFrameWitness ==
    /\ op = "update"
    /\ obsrv_function.id # entry_id
    /\ \E k \in 1..Len(steps) : steps[k].outcome # "fused"
    /\ \E k \in 1..Len(steps) : steps[k].outcome = "fused"
    /\ posterior_belief.mean # prior_belief.mean
    /\ posterior_belief.covariance # prior_belief.covariance

(***************************************************************************)
(* Claims about ff::Gaussian.                                              *)
(***************************************************************************)
ClaimDet ==
    Sub(Mul(covariance_[0][0], covariance_[1][1]),
        Mul(covariance_[0][1], covariance_[1][0]))
\* full rank: no non-trivial combination of the columns vanishes
ClaimFullRank == ClaimDet # Zero
\* (x - mean)^T covariance^-1 (x - mean), by Cramer's rule
ClaimQuadratic(x) ==
    LET d0 == Sub(x[0], mean_[0])
        d1 == Sub(x[1], mean_[1])
    IN  Div(Add(Sub(Mul(Mul(d0, d0), covariance_[1][1]),
                    Mul(Mul(Int2Real(2), Mul(d0, d1)), covariance_[0][1])),
                Mul(Mul(d1, d1), covariance_[0][0])),
            ClaimDet)
ClaimLogNormalizer == [k |-> "fin", det |-> ClaimDet, rows |-> Dimension]

\* C10: after construction and any sequence of Mean, Covariance and SetUnit
\* calls the Gaussian is marked full rank exactly when its covariance has
\* full rank, LogProbability (of a finite vector) is -infinity exactly when
\* it has not, and with full rank the precision and the log normalizer are
\* those of the covariance stored, and LogProbability is computed from them.
DerivedFromLastCovariance ==
    /\ full_rank_ <=> ClaimFullRank
    /\ \A x \in GaussianVectors :
          (LogProbability(Gaussian, x).k = "ninf") <=> ~ClaimFullRank
    /\ ClaimFullRank =>
          /\ MMul(precision_, covariance_) = Identity
          /\ MMul(covariance_, precision_) = Identity
          /\ log_normalizer_ = ClaimLogNormalizer
          /\ \A x \in GaussianVectors :
                LogProbability(Gaussian, x)
                  = [k |-> "fin", log_normalizer |-> ClaimLogNormalizer,
                     quadratic |-> ClaimQuadratic(x)]

\* C10 witness: a full rank covariance, other than the unit one and with
\* another determinant, set on a Gaussian that had been rank deficient, and
\* a mean other than zero
DerivedFromLastCovarianceWitness ==
    /\ full_rank_
    /\ seen_rank_deficient
    /\ covariance_ # Identity
    /\ ClaimDet # One
    /\ covariance_[0][1] # Zero
    /\ mean_ # Vec(<<0, 0>>)

(***************************************************************************)
(* Further claims about the transform.                                     *)
(***************************************************************************)
\* C11 as claimed: a forward() on a transform with global_dimension + lambda
\* = 0 (alpha = 0) does not complete normally: no call returns with points
\* written under that configuration.
DegenerateLambdaFlagged == ~(thrown = "ok" /\ ClaimScale = Zero)

\* C11, what the code does: the call with global_dimension + lambda = 0
\* returned normally and wrote 2G+1 points whose weights are not finite
DegenerateLambdaSilent ==
    /\ thrown = "ok"
    /\ alpha_ = Zero
    /\ ClaimScale = Zero
    /\ PointCount(point_set) = 2 * global_dimension + 1
    /\ ~isfinite(ClaimWeight(0).w_mean)
    /\ \A k \in 1..(2 * global_dimension) : ~isfinite(ClaimWeight(k).w_mean)

\* C12: forward() called again with the same Gaussian, global dimension and
\* offset on the point set a call has left yields the same outcome and the
\* same point set, which is also the one a call on a new point set yields,
\* whatever the point set held before; a call leaves alpha, beta and kappa
\* as they were.
ForwardIdempotent ==
    [][/\ \E again \in {forward(Transform', gaussian', global_dimension',
                                dimension_offset', point_set')} :
              /\ again.thrown = thrown'
              /\ again.ps = point_set'
       /\ thrown' = "ok" =>
              point_set' = forward(Transform', gaussian', global_dimension',
                                   dimension_offset',
                                   NewPointSet(point_set.NumberOfPoints)).ps
       /\ <<alpha_', beta_', kappa_'>> = <<alpha_, beta_, kappa_>>]_vars

\* C12 witness: a call that returned normally on a point set holding the
\* points of a call with other arguments, with placeholder points around
\* the Gaussian's own
ForwardIdempotentWitness ==
    /\ thrown = "ok"
    /\ overwrote
    /\ ClaimPadded
    /\ \A i \in DOMAIN point_set.entries : point_set.entries[i] # Unset

(***************************************************************************)
(* Further claims about the multi-sensor update.                           *)
(***************************************************************************)
\* the orders in which the loop can visit the sensors: the permutations
ClaimOrders ==
    { order \in [1..ClaimSensorCount -> 0..(ClaimSensorCount - 1)] :
        \A a, b \in 1..ClaimSensorCount : order[a] = order[b] => a = b }
ClaimOutcome(recorded, i) ==
    {recorded[k].outcome : k \in {j \in 1..Len(recorded) : recorded[j].sensor = i}}

\* C13: the loop run over the sensors in any order ends with the same C, D
\* and posterior as the update, and skips and fuses the same sensors.
OrderIndependent ==
    op = "update" =>
        \A order \in ClaimOrders :
            \E res \in {update_over(ClaimModelAtEntry, quadrature, prior_belief,
                                    y, order)} :
                /\ res.C = steps[Len(steps)].C
                /\ res.D = steps[Len(steps)].D
                /\ res.posterior_belief = posterior_belief
                /\ \A i \in 0..(ClaimSensorCount - 1) :
                      ClaimOutcome(res.steps, i) = ClaimOutcome(steps, i)

\* C13 witness: an update of three sensors in which the first and the last
\* were fused, with different contributions to C, and the one between them
\* was skipped
OrderIndependentWitness ==
    /\ op = "update"
    /\ ClaimSensorCount = 3
    /\ steps[1].outcome = "fused" /\ steps[3].outcome = "fused"
    /\ steps[2].outcome # "fused"
    /\ isfinite(posterior_belief.mean[0])
    /\ Sub(steps[1].C[0][0], ClaimAccBefore(0).C[0][0])
         # Sub(steps[3].C[0][0], steps[2].C[0][0])

\* the events of the iteration of sensor i, as its outcome implies them
ClaimEvents(i) ==
    CASE steps[i + 1].outcome = "invalid_y" -> <<>>
      [] steps[i + 1].outcome = "invalid_body" -> <<<<"id", i>>, <<"body", i>>>>
      [] OTHER -> <<<<"id", i>>, <<"body", i>>, <<"tail", i>>, <<"fuse", i>>,
                    <<"accumulate", i>>>>
RECURSIVE ClaimEventsUpTo(_)
ClaimEventsUpTo(i) ==
    IF i < 0 THEN <<>> ELSE ClaimEventsUpTo(i - 1) \o ClaimEvents(i)

\* C14: one update is INIT once, then the sensors in increasing order, each
\* at most once and each contributing one as: select, body, tail, fuse,
\* accumulate, every body and tail evaluation made on the sensor selected in
\* its own iteration, then the posterior covariance and mean written once,
\* after the last sensor.
UpdateOrdering ==
    op = "update" =>
        /\ Len(steps) = ClaimSensorCount
        /\ \A k \in 1..Len(steps) : steps[k].sensor = k - 1
        /\ calls = <<<<"init", ClaimSensorCount>>>>
                   \o ClaimEventsUpTo(ClaimSensorCount - 1)
                   \o <<<<"posterior_covariance", ClaimSensorCount>>,
                        <<"posterior_mean", ClaimSensorCount>>>>

\* C14 witness: an update of three sensors, entered with the selector on
\* another sensor than the first, with a fused, a skipped and a fused sensor
UpdateOrderingWitness ==
    /\ op = "update"
    /\ ClaimSensorCount = 3
    /\ entry_id # 0
    /\ steps[1].outcome = "fused"
    /\ steps[2].outcome = "invalid_body"
    /\ steps[3].outcome = "fused"
    /\ Len(calls) = 15

\* the tail mean of sensor i, integrated over the sigma points of the prior
ClaimTailMean(i) ==
    integrate(select_sensor(obsrv_function, i), "tail",
              Prepare(obsrv_function, quadrature, prior_belief, y)).mu_y
ClaimTailMeanNonFinite(i) ==
    \E k \in DOMAIN ClaimTailMean(i) : ~isfinite(ClaimTailMean(i)[k])

\* C15: a sensor with a finite measurement slice and a finite body mean is
\* fused and accumulated into C and D, whatever its tail mean; a sensor is
\* skipped only for a non-finite slice or a non-finite body mean.
TailNotGated ==
    op = "update" =>
        \A i \in 0..(ClaimSensorCount - 1) :
            /\ (~ClaimSliceNonFinite(i) /\ ~ClaimBodyMeanNonFinite(i)) =>
                  /\ steps[i + 1].outcome = "fused"
                  /\ ClaimCalled("tail", i)
                  /\ ClaimCalled("fuse", i)
                  /\ ClaimCalled("accumulate", i)
                  /\ ClaimTailMeanNonFinite(i) =>
                        ClaimAccAfter(i) # ClaimAccBefore(i)
            /\ steps[i + 1].outcome = "invalid_y" => ClaimSliceNonFinite(i)
            /\ steps[i + 1].outcome = "invalid_body" => ClaimBodyMeanNonFinite(i)
            /\ steps[i + 1].outcome \in {"invalid_y", "invalid_body", "fused"}

\* C15 witness: a sensor with a finite slice, a finite body mean and a tail
\* mean that is not finite was fused, and C is no longer finite
TailNotGatedWitness ==
    /\ op = "update"
    /\ \E i \in 0..(ClaimSensorCount - 1) :
          /\ ~ClaimSliceNonFinite(i)
          /\ ~ClaimBodyMeanNonFinite(i)
          /\ ClaimTailMeanNonFinite(i)
          /\ steps[i + 1].outcome = "fused"
          /\ ~isfinite(steps[i + 1].C[0][0])

\* the moments of the two branches of sensor i and the state the loop was in
\* when it reached sensor i
ClaimFrame == Prepare(obsrv_function, quadrature, prior_belief, y)
ClaimBranch(part, i) == integrate(select_sensor(obsrv_function, i), part, ClaimFrame)
ClaimMomentsFinite(m) ==
    /\ \A k \in DOMAIN m.mu_y : isfinite(m.mu_y[k])
    /\ \A r \in DOMAIN m.c_yy : \A k \in DOMAIN m.c_yy[r] : isfinite(m.c_yy[r][k])
    /\ \A r \in DOMAIN m.c_xy : \A k \in DOMAIN m.c_xy[r] : isfinite(m.c_xy[r][k])
ClaimTailWeights == {Zero, Frac(1, 4), Frac(1, 2), One}

\* C16: for a fused sensor with finite body moments, fusing the body moments
\* with themselves gives the body moments under every tail weight, and
\* fusing them with any finite tail moments under the tail weight zero gives
\* the body moments; in both cases the sensor was accumulated as its body
\* moments alone are.
FuseReducesToBody ==
    op = "update" =>
        \A i \in 0..(ClaimSensorCount - 1) :
            (steps[i + 1].outcome = "fused"
                /\ ClaimMomentsFinite(ClaimBranch("body", i))) =>
                LET body == ClaimBranch("body", i)
                    tail_ == ClaimBranch("tail", i)
                    t == obsrv_function.tail_weight
                    reduced == body = tail_ \/ (t = Zero /\ ClaimMomentsFinite(tail_))
                IN  /\ \A w \in ClaimTailWeights : fuse(w, body, body) = body
                    /\ ClaimMomentsFinite(tail_) => fuse(Zero, body, tail_) = body
                    /\ reduced =>
                          /\ fuse(t, body, tail_) = body
                          /\ ClaimAccAfter(i) =
                                accumulate(ClaimAccBefore(i), ClaimFrame, i, body)

\* C16 witness: an update under a tail weight that is not zero fused a
\* sensor with equal finite body and tail moments, and C and D moved
FuseReducesToBodyEqual ==
    /\ op = "update"
    /\ obsrv_function.tail_weight # Zero
    /\ \E i \in 0..(ClaimSensorCount - 1) :
          /\ steps[i + 1].outcome = "fused"
          /\ ClaimMomentsFinite(ClaimBranch("body", i))
          /\ ClaimBranch("body", i) = ClaimBranch("tail", i)
          /\ ClaimAccAfter(i) # ClaimAccBefore(i)

ClaimAllSkipped ==
    /\ op = "update"
    /\ \A k \in 1..Len(steps) : steps[k].outcome # "fused"

BatchAgreesWithSingle ==
    (/\ evaluated # "none"
     /\ Len(states) = Len(cond_states)
     /\ Len(states) = Len(cond_inputs)) =>
        /\ failed = "none"
        /\ Len(probs) = Len(states)
        /\ \A i \in 1..Len(states) :
              probs[i] = IF evaluated = "probabilities"
                         THEN probability(states[i], cond_states[i],
                                          cond_inputs[i], dt)
                         ELSE log_probability(states[i], cond_states[i],
                                              cond_inputs[i], dt)

\* C18 witness: probabilities() returned, for an entry whose cond_state
\* differs from its cond_input, the probability of the state given the
\* cond_input as cond_state; it is not the one of the single evaluation
ProbabilitiesReadInputsTwice ==
    /\ evaluated = "probabilities"
    /\ failed = "none"
    /\ Len(states) = Len(cond_states)
    /\ Len(states) = Len(cond_inputs)
    /\ \E i \in 1..Len(states) :
          /\ cond_states[i] # cond_inputs[i]
          /\ probs[i] = probability(states[i], cond_inputs[i], cond_inputs[i], dt)
          /\ probs[i] # probability(states[i], cond_states[i], cond_inputs[i], dt)

\* C19: in every reachable state the locations, the log probability masses,
\* the probability masses and the cumulative distribution have one length,
\* size(), and it is at least 1.
DiscreteLengthsAgree ==
    /\ Len(locations_) >= 1
    /\ Len(log_prob_mass_) = Len(locations_)
    /\ Len(prob_mass_) = Len(locations_)
    /\ Len(cumul_distr_) = Len(locations_)

\* C19 witness: mean() was called on a distribution no setter was called
\* on; it has one location and no probability mass, and the read of
\* prob_mass(0) failed
DiscreteConstructedWithoutMass ==
    /\ invoked = "mean"
    /\ moment.failed = "assertion"
    /\ Len(locations_) = 1
    /\ Len(log_prob_mass_) = 1
    /\ Len(cumul_distr_) = 1
    /\ Len(prob_mass_) = 0

=============================================================================
